---- MODULE Spec2Model ----
(***************************************************************************)
(* Study lifecycle, role-scoped access control and deletion-request        *)
(* workflow of the PACS backend (pacs-backend/app/routers/studies.py).     *)
(*                                                                         *)
(* Every HTTP handler is one action.  A handler reads the authenticated    *)
(* actor (a row of the users table), performs its checks in source order   *)
(* and either raises (the database is left as it was) or mutates rows and  *)
(* commits.  The variable `response` holds what the last handler answered. *)
(*                                                                         *)
(* The helper functions generate_study_id (utils.py), anonymize_phi        *)
(* (audit.py) and has_administrative_access (auth.py) are run on their own *)
(* from every input of a bounded set; the variable `call` holds the        *)
(* arguments, the locals and the outcome of such a call.                   *)
(***************************************************************************)
EXTENDS Integers, Sequences, FiniteSets, TLC

\* ---------------------------------------------------------------- bounds
MaxStudies == 1      \* Study rows ever created
MaxRequests == 1     \* DeletionRequest rows ever created
MaxFiles == 1        \* .dcm files in one upload
MaxTime == 1         \* distinct readings of datetime.now()

\* ------------------------------------------------------------ vocabulary
NULL == 0            \* SQL NULL / Python None for integer columns
NoText == "null"     \* SQL NULL for Text columns

ADMIN == "admin"
DIAGNOSTIC_CENTER_ADMIN == "diagnostic_center_admin"
DOCTOR == "doctor"
TECHNICIAN == "technician"
RADIOLOGIST == "radiologist"
UserRole == {ADMIN, DIAGNOSTIC_CENTER_ADMIN, DOCTOR, TECHNICIAN, RADIOLOGIST}

QUEUED == "queued"
PROCESSING == "processing"
UPLOADED == "uploaded"
ASSIGNED == "assigned"
IN_PROGRESS == "in_progress"
COMPLETED == "completed"
REVIEWED == "reviewed"
StudyStatus == {QUEUED, PROCESSING, UPLOADED, ASSIGNED, IN_PROGRESS, COMPLETED, REVIEWED}

\* The users table: one admin without a center, center 1 with its admin, a
\* doctor, a technician and a radiologist, center 2 with a doctor and a
\* radiologist.
User ==
  [u \in 1..7 |->
     CASE u = 1 -> [role |-> ADMIN,                   diagnostic_center_id |-> NULL]
       [] u = 2 -> [role |-> DIAGNOSTIC_CENTER_ADMIN, diagnostic_center_id |-> 1]
       [] u = 3 -> [role |-> DOCTOR,                  diagnostic_center_id |-> 1]
       [] u = 4 -> [role |-> DOCTOR,                  diagnostic_center_id |-> 2]
       [] u = 5 -> [role |-> TECHNICIAN,              diagnostic_center_id |-> 1]
       [] u = 6 -> [role |-> RADIOLOGIST,             diagnostic_center_id |-> 1]
       [] u = 7 -> [role |-> RADIOLOGIST,             diagnostic_center_id |-> 2]]

UserIds == DOMAIN User

\* doctor_id values a caller of assign_study passes: the doctor of center 2
\* and a user who is not a doctor.
DoctorIdInputs == {4, 5}

\* report_data body sent to update_report.
ReportData == { [report |-> "R", final_report |-> "F"] }

Times == 1..MaxTime

VARIABLES
  studies,            \* studies table: id -> row
  next_study_id,      \* next primary key of the studies table
  dicom_files,        \* dicom_files table: set of rows
  storage,            \* paths present under UPLOAD_DIR
  deletion_requests,  \* deletion_requests table: id -> row
  audit_logs,         \* audit_logs table, in insertion order
  response,           \* answer of the last handler
  call,               \* a call of a helper function: its arguments, its
                      \* local variables and what it returned or raised
  is_active,          \* users table, column is_active: user id -> BOOLEAN
  tokens,             \* users who hold an access token that has not expired
  login_attempts,     \* main.py login_attempts: client IP -> times of failures
  current_time,       \* time.time(), in seconds
  sessions            \* per worker process: the request it is serving, with
                      \* the Study row its database session has loaded

vars == <<studies, next_study_id, dicom_files, storage, deletion_requests,
          audit_logs, response, call, is_active, tokens, login_attempts,
          current_time, sessions>>

db == <<studies, next_study_id, dicom_files, storage, deletion_requests, audit_logs>>

auth == <<is_active, tokens, login_attempts, current_time>>

\* The server processes that share the database file.
Workers == {"w1", "w2"}

Idle == [op |-> "idle"]

\* init_db creates every user active; nobody has logged in, the rate
\* limiter's dict is empty and no request is being served.
InitAuth ==
  /\ is_active = [u \in UserIds |-> TRUE]
  /\ tokens = [u \in {} |-> 0]
  /\ login_attempts = [ip \in {} |-> <<>>]
  /\ current_time = 0

InitSessions == sessions = [w \in Workers |-> Idle]

\* The HTTP answer: which handler, status code, and the part of the body
\* that matters (the set of study ids for a listing).
Respond(op, code, body) ==
  response' = [op |-> op, status_code |-> code, body |-> body]

Init ==
  /\ studies = <<>>
  /\ next_study_id = 1
  /\ dicom_files = {}
  /\ storage = {}
  /\ deletion_requests = <<>>
  /\ audit_logs = <<>>
  /\ response = [op |-> "none", status_code |-> 0, body |-> {}]
  /\ InitAuth
  /\ InitSessions
  /\ call = [fn |-> "none"]

\* ------------------------------------------------------------ upload_study
\* n .dcm files arrive; `parsed` are the ones pydicom could read and save;
\* ai_ok tells whether ai_service.generate_report returned.  The row is
\* committed as QUEUED and, within the same call, moved to PROCESSING when
\* the AI report came back.  Every uploader of the users table has a center,
\* so the NOT NULL constraint on diagnostic_center_id never fires.
upload_study(u, too_large, n, parsed, ai_ok) ==
  IF User[u].role \notin {TECHNICIAN, DOCTOR}
  THEN /\ Respond("upload_study", 403, {})
       /\ UNCHANGED db
  ELSE IF too_large
  THEN /\ Respond("upload_study", 413, {})
       /\ UNCHANGED db
  ELSE
    LET id == next_study_id
        row == [diagnostic_center_id |-> User[u].diagnostic_center_id,
                patient_id |-> "PAT1",
                uploaded_by_id |-> u,
                assigned_doctor_id |-> NULL,
                radiologist_id |-> NULL,
                status |-> IF ai_ok THEN PROCESSING ELSE QUEUED,
                ai_report |-> IF ai_ok THEN "AI" ELSE NoText,
                doctor_report |-> NoText,
                radiologist_report |-> NoText,
                final_report |-> NoText]
    IN /\ next_study_id <= MaxStudies
       /\ studies' = (id :> row) @@ studies
       /\ next_study_id' = id + 1
       /\ storage' = storage \cup {<<id, k>> : k \in 1..n}
       /\ dicom_files' = dicom_files \cup
                           {[study_id |-> id, file_path |-> <<id, k>>] : k \in parsed}
       /\ Respond("upload_study", 200, {id})
       /\ UNCHANGED <<deletion_requests, audit_logs>>

\* ------------------------------------------------------------- get_studies
\* skip and limit keep their defaults (0 and 100), so the page holds every
\* row of the query.
NoFilter == "none"

\* A listing that scopes a technician by center instead of by uploader and a
\* doctor by center alone.
get_studies_query_by_center(u, status_filter) ==
  LET scoped ==
        IF User[u].role = ADMIN
        THEN DOMAIN studies
        ELSE {s \in DOMAIN studies :
                studies[s].diagnostic_center_id = User[u].diagnostic_center_id}
  IN IF status_filter # NoFilter
     THEN {s \in scoped : studies[s].status = status_filter}
     ELSE scoped

get_studies_query(u, status_filter) ==
  LET role == User[u].role
      scoped ==
        IF role = TECHNICIAN
        THEN {s \in DOMAIN studies : studies[s].uploaded_by_id = u}
        ELSE IF role = DOCTOR
        THEN {s \in DOMAIN studies :
                \/ studies[s].diagnostic_center_id = User[u].diagnostic_center_id
                \/ studies[s].assigned_doctor_id = u}
        ELSE IF role = RADIOLOGIST
        THEN {s \in DOMAIN studies :
                studies[s].diagnostic_center_id = User[u].diagnostic_center_id}
        ELSE IF role \in {DIAGNOSTIC_CENTER_ADMIN}
        THEN {s \in DOMAIN studies :
                studies[s].diagnostic_center_id = User[u].diagnostic_center_id}
        ELSE DOMAIN studies
  IN IF status_filter # NoFilter
     THEN {s \in scoped : studies[s].status = status_filter}
     ELSE scoped

get_studies(u, status_filter) ==
  /\ Respond("get_studies", 200, get_studies_query(u, status_filter))
  /\ UNCHANGED db

\* --------------------------------------------------------------- get_study
\* A detail check that also lets the assigned doctor in.
get_study_has_access_or_assigned(u, s) ==
  \/ User[u].role \in {ADMIN, RADIOLOGIST}
  \/ studies[s].diagnostic_center_id = User[u].diagnostic_center_id
  \/ studies[s].assigned_doctor_id = u

get_study_has_access(u, s) ==
  LET role == User[u].role
  IN IF role = ADMIN THEN TRUE
     ELSE IF role = RADIOLOGIST
     THEN studies[s].diagnostic_center_id = User[u].diagnostic_center_id
     ELSE IF role \in {DOCTOR, TECHNICIAN, DIAGNOSTIC_CENTER_ADMIN}
     THEN studies[s].diagnostic_center_id = User[u].diagnostic_center_id
     ELSE FALSE

get_study(u, s) ==
  /\ IF s \notin DOMAIN studies
     THEN Respond("get_study", 404, {})
     ELSE IF ~ get_study_has_access(u, s)
     THEN Respond("get_study", 403, {})
     ELSE Respond("get_study", 200, {s})
  /\ UNCHANGED db

\* ------------------------------------------------------------ assign_study
assign_study(u, s, doctor_id) ==
  IF s \notin DOMAIN studies
  THEN /\ Respond("assign_study", 404, {})
       /\ UNCHANGED db
  ELSE IF User[u].role \notin {DIAGNOSTIC_CENTER_ADMIN, DOCTOR}
  THEN /\ Respond("assign_study", 403, {})
       /\ UNCHANGED db
  ELSE IF studies[s].diagnostic_center_id # User[u].diagnostic_center_id
  THEN /\ Respond("assign_study", 403, {})
       /\ UNCHANGED db
  ELSE /\ studies' = [studies EXCEPT ![s].assigned_doctor_id = doctor_id,
                                     ![s].status = ASSIGNED]
       /\ Respond("assign_study", 200, {})
       /\ UNCHANGED <<next_study_id, dicom_files, storage, deletion_requests, audit_logs>>

\* ----------------------------------------------------------- update_report
\* PUT /{study_id}/report is registered twice on the router; the router
\* dispatches a request to the first route that matches, so this first
\* handler answers every such request.
update_report(u, s, report_data) ==
  IF s \notin DOMAIN studies
  THEN /\ Respond("update_report", 404, {})
       /\ UNCHANGED db
  ELSE /\ studies' =
            IF User[u].role = DOCTOR
            THEN [studies EXCEPT ![s].doctor_report = report_data.report,
                                 ![s].status = COMPLETED]
            ELSE IF User[u].role = RADIOLOGIST
            THEN [studies EXCEPT ![s].radiologist_report = report_data.report,
                                 ![s].final_report = report_data.final_report,
                                 ![s].status = REVIEWED]
            ELSE studies
       /\ Respond("update_report", 200, {})
       /\ UNCHANGED <<next_study_id, dicom_files, storage, deletion_requests, audit_logs>>

\* The second handler registered on PUT /{study_id}/report.  No request
\* reaches it, so it is part of no next-state relation; it is kept here
\* beside the handler that shadows it.
update_report_shadowed(u, s, final) ==
  IF s \notin DOMAIN studies
  THEN /\ Respond("update_report", 404, {})
       /\ UNCHANGED db
  ELSE IF ~ (\/ User[u].role = ADMIN
             \/ User[u].role = RADIOLOGIST
             \/ User[u].role = DOCTOR /\
                  studies[s].diagnostic_center_id = User[u].diagnostic_center_id)
  THEN /\ Respond("update_report", 403, {})
       /\ UNCHANGED db
  ELSE /\ studies' = [studies EXCEPT
                        ![s].radiologist_report = "R",
                        ![s].status = IF final THEN COMPLETED ELSE @]
       /\ Respond("update_report", 200, {})
       /\ UNCHANGED <<next_study_id, dicom_files, storage, deletion_requests, audit_logs>>

\* ---------------------------------------------------- assign_study_to_self
\* A self-assignment that takes the study over from whoever holds it.
assign_study_to_self_overwriting(u, s) ==
  IF User[u].role # RADIOLOGIST
  THEN /\ Respond("assign_study_to_self", 403, {})
       /\ UNCHANGED db
  ELSE IF s \notin DOMAIN studies
  THEN /\ Respond("assign_study_to_self", 404, {})
       /\ UNCHANGED db
  ELSE /\ studies' = [studies EXCEPT ![s].radiologist_id = u,
                                     ![s].status = ASSIGNED]
       /\ Respond("assign_study_to_self", 200, {})
       /\ UNCHANGED <<next_study_id, dicom_files, storage, deletion_requests, audit_logs>>

assign_study_to_self(u, s) ==
  IF User[u].role # RADIOLOGIST
  THEN /\ Respond("assign_study_to_self", 403, {})
       /\ UNCHANGED db
  ELSE IF s \notin DOMAIN studies
  THEN /\ Respond("assign_study_to_self", 404, {})
       /\ UNCHANGED db
  ELSE IF studies[s].radiologist_id # NULL
  THEN /\ Respond("assign_study_to_self", 400, {})
       /\ UNCHANGED db
  ELSE /\ studies' = [studies EXCEPT ![s].radiologist_id = u,
                                     ![s].status = ASSIGNED]
       /\ Respond("assign_study_to_self", 200, {})
       /\ UNCHANGED <<next_study_id, dicom_files, storage, deletion_requests, audit_logs>>

\* ------------------------------------------------------------ audit.py
REDACTED == "***REDACTED***"

phi_fields == {"patient_name", "first_name", "last_name",
               "email", "phone", "address", "patient_id"}

\* An anonymization that hands the record back as it came.
anonymize_phi_keeping(data) == data

anonymize_phi(data) ==
  [f \in DOMAIN data |-> IF f \in phi_fields THEN REDACTED ELSE data[f]]

\* An audit write that is lost without an error.
log_audit_event_dropped(action, u, resource_type, resource_id, details) ==
  audit_logs' = audit_logs

log_audit_event(action, u, resource_type, resource_id, details) ==
  audit_logs' = Append(audit_logs,
                       [user_id |-> u, action |-> action,
                        resource_type |-> resource_type,
                        resource_id |-> resource_id, details |-> details])

\* ------------------------------------------------------------ delete_study
\* `removed` are the stored files os.remove got rid of before the loop
\* ended; io_error tells that os.remove raised on the next one;
\* commit_error tells that the commit inside log_audit_event raised (a locked
\* database, or the NOT NULL failure on annotations.study_id when the study
\* has annotations).  Either exception leaves the handler, get_db closes the
\* session and nothing of the transaction is kept, while the files removed
\* so far stay removed.
delete_study(u, s, removed, io_error, commit_error) ==
  IF User[u].role # ADMIN
  THEN /\ Respond("delete_study", 403, {})
       /\ UNCHANGED db
  ELSE IF s \notin DOMAIN studies
  THEN /\ Respond("delete_study", 404, {})
       /\ UNCHANGED db
  ELSE
    LET rows == {f \in dicom_files : f.study_id = s}
        on_disk == {f.file_path : f \in rows} \cap storage
        audit_details ==
          [study_id |-> s,
           patient_id |-> studies[s].patient_id,
           diagnostic_center_id |-> studies[s].diagnostic_center_id,
           files_count |-> Cardinality(rows)]
        anonymized_details == anonymize_phi(audit_details)
    IN /\ removed \subseteq on_disk
       /\ IF io_error
          THEN /\ removed # on_disk
               /\ ~commit_error
               /\ storage' = storage \ removed
               /\ Respond("delete_study", 500, {})
               /\ UNCHANGED <<studies, next_study_id, dicom_files,
                              deletion_requests, audit_logs>>
          ELSE IF commit_error
          THEN /\ removed = on_disk
               /\ storage' = storage \ removed
               /\ Respond("delete_study", 500, {})
               /\ UNCHANGED <<studies, next_study_id, dicom_files,
                              deletion_requests, audit_logs>>
          ELSE /\ removed = on_disk
               /\ storage' = storage \ removed
               /\ dicom_files' = dicom_files \ rows
               /\ studies' = [i \in DOMAIN studies \ {s} |-> studies[i]]
               /\ log_audit_event("STUDY_DELETED", u, "study", ToString(s),
                                  anonymized_details)
               /\ Respond("delete_study", 200, {})
               /\ UNCHANGED <<next_study_id, deletion_requests>>

\* ------------------------------------------------- create_deletion_request
\* A creation that files the request without looking the study up.
create_deletion_request_unchecked(u, s, reason) ==
  IF reason = NoText
  THEN /\ Respond("create_deletion_request", 422, {})
       /\ UNCHANGED db
  ELSE IF User[u].role \notin {TECHNICIAN, DOCTOR}
  THEN /\ Respond("create_deletion_request", 403, {})
       /\ UNCHANGED db
  ELSE
    LET id == Len(deletion_requests) + 1
    IN /\ id <= MaxRequests
       /\ deletion_requests' =
            Append(deletion_requests,
                   [study_id |-> s, requested_by_id |-> u, reason |-> reason,
                    status |-> "pending", approved_by_id |-> NULL,
                    approved_at |-> NULL])
       /\ Respond("create_deletion_request", 200, {id})
       /\ UNCHANGED <<studies, next_study_id, dicom_files, storage, audit_logs>>

\* The request body is validated against DeletionRequestCreate before the
\* handler runs; a body without a reason is answered 422.
create_deletion_request(u, s, reason) ==
  IF reason = NoText
  THEN /\ Respond("create_deletion_request", 422, {})
       /\ UNCHANGED db
  ELSE IF User[u].role \notin {TECHNICIAN, DOCTOR}
  THEN /\ Respond("create_deletion_request", 403, {})
       /\ UNCHANGED db
  ELSE IF s \notin DOMAIN studies
  THEN /\ Respond("create_deletion_request", 404, {})
       /\ UNCHANGED db
  ELSE
    LET id == Len(deletion_requests) + 1
    IN /\ id <= MaxRequests
       /\ deletion_requests' =
            Append(deletion_requests,
                   [study_id |-> s, requested_by_id |-> u, reason |-> reason,
                    status |-> "pending", approved_by_id |-> NULL,
                    approved_at |-> NULL])
       /\ Respond("create_deletion_request", 200, {id})
       /\ UNCHANGED <<studies, next_study_id, dicom_files, storage, audit_logs>>

\* ------------------------------------- approve / reject_deletion_request
\* An approval that carries the deletion out: the study the request names
\* and its file rows go with it.
approve_deletion_request_deleting(u, r, now) ==
  IF User[u].role # ADMIN
  THEN /\ Respond("approve_deletion_request", 403, {})
       /\ UNCHANGED db
  ELSE IF r \notin DOMAIN deletion_requests
  THEN /\ Respond("approve_deletion_request", 404, {})
       /\ UNCHANGED db
  ELSE LET s == deletion_requests[r].study_id
       IN /\ deletion_requests' =
               [deletion_requests EXCEPT ![r].status = "approved",
                                         ![r].approved_by_id = u,
                                         ![r].approved_at = now]
          /\ studies' = [i \in DOMAIN studies \ {s} |-> studies[i]]
          /\ dicom_files' = {f \in dicom_files : f.study_id # s}
          /\ Respond("approve_deletion_request", 200, {})
          /\ UNCHANGED <<next_study_id, storage, audit_logs>>

approve_deletion_request(u, r, now) ==
  IF User[u].role # ADMIN
  THEN /\ Respond("approve_deletion_request", 403, {})
       /\ UNCHANGED db
  ELSE IF r \notin DOMAIN deletion_requests
  THEN /\ Respond("approve_deletion_request", 404, {})
       /\ UNCHANGED db
  ELSE /\ deletion_requests' =
            [deletion_requests EXCEPT ![r].status = "approved",
                                      ![r].approved_by_id = u,
                                      ![r].approved_at = now]
       /\ Respond("approve_deletion_request", 200, {})
       /\ UNCHANGED <<studies, next_study_id, dicom_files, storage, audit_logs>>

reject_deletion_request(u, r, now) ==
  IF User[u].role # ADMIN
  THEN /\ Respond("reject_deletion_request", 403, {})
       /\ UNCHANGED db
  ELSE IF r \notin DOMAIN deletion_requests
  THEN /\ Respond("reject_deletion_request", 404, {})
       /\ UNCHANGED db
  ELSE /\ deletion_requests' =
            [deletion_requests EXCEPT ![r].status = "rejected",
                                      ![r].approved_by_id = u,
                                      ![r].approved_at = now]
       /\ Respond("reject_deletion_request", 200, {})
       /\ UNCHANGED <<studies, next_study_id, dicom_files, storage, audit_logs>>

\* ------------------------------------------------------------------- Next
StudyIds == 1..MaxStudies
RequestIds == 1..MaxRequests
Reasons == {NoText, "wrong patient"}


\* One disjunct per route; the input sets are parameters so that a
\* specification can fix the inputs its properties do not depend on.
UploadStudy(Uploaders, FileCounts, AiOutcomes) ==
  /\ \E u \in Uploaders, too_large \in BOOLEAN, n \in FileCounts, ai_ok \in AiOutcomes :
       \E parsed \in SUBSET (1..n) : upload_study(u, too_large, n, parsed, ai_ok)
  /\ UNCHANGED <<call, auth, sessions>>

GetStudies ==
  /\ \E u \in UserIds, f \in {NoFilter} \cup StudyStatus : get_studies(u, f)
  /\ UNCHANGED <<call, auth, sessions>>

GetStudy ==
  /\ \E u \in UserIds, s \in StudyIds : get_study(u, s)
  /\ UNCHANGED <<call, auth, sessions>>

AssignStudy(DoctorIds) ==
  /\ \E u \in UserIds, s \in StudyIds, d \in DoctorIds : assign_study(u, s, d)
  /\ UNCHANGED <<call, auth, sessions>>

UpdateReport(Bodies) ==
  /\ \E u \in UserIds, s \in StudyIds, rd \in Bodies : update_report(u, s, rd)
  /\ UNCHANGED <<call, auth, sessions>>

AssignStudyToSelf ==
  /\ \E u \in UserIds, s \in StudyIds : assign_study_to_self(u, s)
  /\ UNCHANGED <<call, auth, sessions>>

\* The file rows of a study and those of their paths that exist on disk.
StudyFiles(s) == {f \in dicom_files : f.study_id = s}

StoredFiles(s) == {f.file_path : f \in StudyFiles(s)} \cap storage

\* What the file system and the commit can do to a delete_study call: they
\* are consulted only once the role check and the lookup have passed.
DeleteOutcomes(u, s) ==
  IF User[u].role # ADMIN \/ s \notin DOMAIN studies
  THEN {[removed |-> {}, io_error |-> FALSE, commit_error |-> FALSE]}
  ELSE [removed : SUBSET StoredFiles(s), io_error : BOOLEAN, commit_error : BOOLEAN]

DeleteStudy ==
  /\ \E u \in UserIds, s \in StudyIds :
       \E o \in DeleteOutcomes(u, s) :
         delete_study(u, s, o.removed, o.io_error, o.commit_error)
  /\ UNCHANGED <<call, auth, sessions>>

CreateDeletionRequest ==
  /\ \E u \in UserIds, s \in StudyIds, reason \in Reasons :
       create_deletion_request(u, s, reason)
  /\ UNCHANGED <<call, auth, sessions>>

ApproveDeletionRequest ==
  /\ \E u \in UserIds, r \in RequestIds, now \in Times :
       approve_deletion_request(u, r, now)
  /\ UNCHANGED <<call, auth, sessions>>

RejectDeletionRequest ==
  /\ \E u \in UserIds, r \in RequestIds, now \in Times :
       reject_deletion_request(u, r, now)
  /\ UNCHANGED <<call, auth, sessions>>

Next ==
  \/ UploadStudy(UserIds, 0..MaxFiles, BOOLEAN)
  \/ GetStudies
  \/ GetStudy
  \/ AssignStudy(DoctorIdInputs)
  \/ UpdateReport(ReportData)
  \/ AssignStudyToSelf
  \/ DeleteStudy
  \/ CreateDeletionRequest
  \/ ApproveDeletionRequest
  \/ RejectDeletionRequest

Spec == Init /\ [][Next]_vars

\* Listing and detail access.
NextAccess ==
  \/ UploadStudy(UserIds, {0}, BOOLEAN)
  \/ AssignStudy(DoctorIdInputs)
  \/ GetStudies
  \/ GetStudy

SpecAccess == Init /\ [][NextAccess]_vars

\* The status field and the handlers that write it.  Which user an
\* assignment names does not matter here, so one doctor_id is sent.
NextLifecycle ==
  \/ UploadStudy(UserIds, {0}, BOOLEAN)
  \/ AssignStudy({4})
  \/ AssignStudyToSelf
  \/ UpdateReport(ReportData)

SpecLifecycle == Init /\ [][NextLifecycle]_vars

\* Deletion requests and the deletion of studies.  Neither handler reads the
\* status, the uploader or the files of a study, so uploads come from the
\* admin (refused) and the technician, carry no .dcm file, and their
\* enrichment succeeds.
NextDeletion ==
  \/ UploadStudy({1, 5}, {0}, {TRUE})
  \/ CreateDeletionRequest
  \/ ApproveDeletionRequest
  \/ RejectDeletionRequest
  \/ DeleteStudy

SpecDeletion == Init /\ [][NextDeletion]_vars

\* The removal of a study with its files, next to the resolution of the
\* requests that name it.  The handlers read neither who uploaded a study
\* nor who filed a request, so the technician uploads and files, with one
\* reason, and the admin resolves, at one reading of the clock; delete_study
\* is called by every user.
NextRemoval ==
  \/ UploadStudy({5}, 0..MaxFiles, {TRUE})
  \/ /\ \E s \in StudyIds : create_deletion_request(5, s, "wrong patient")
     /\ UNCHANGED <<call, auth, sessions>>
  \/ /\ \E r \in RequestIds : approve_deletion_request(1, r, 1)
     /\ UNCHANGED <<call, auth, sessions>>
  \/ /\ \E r \in RequestIds : reject_deletion_request(1, r, 1)
     /\ UNCHANGED <<call, auth, sessions>>
  \/ DeleteStudy

SpecRemoval == Init /\ [][NextRemoval]_vars

\* ------------------------------------------------- requests side by side
\* A handler body has no await between its query and its commit, so one
\* process serves it in one piece; two processes on the same database file
\* do not wait for each other.  A request is then two steps: the query,
\* which loads the Study row into the session and runs the checks, and the
\* commit, which flushes the session.

\* An UPDATE that sends every column the handler assigned.
Flush_every_assignment(session) ==
  [c \in DOMAIN studies[session.study_id] |->
     IF c \in DOMAIN session.assigned
     THEN session.assigned[c] ELSE studies[session.study_id][c]]

\* The flush sends an UPDATE for the columns whose assigned value differs
\* from the value the session loaded, and for no other column.
Flush(session) ==
  [c \in DOMAIN studies[session.study_id] |->
     IF c \in DOMAIN session.assigned /\ session.assigned[c] # session.loaded[c]
     THEN session.assigned[c] ELSE studies[session.study_id][c]]

Serving(w, op, u, s, assigned) ==
  sessions' = [sessions EXCEPT ![w] =
                 [op |-> op, user |-> u, study_id |-> s, loaded |-> studies[s],
                  assigned |-> assigned]]

\* assign_study up to the assignments of lines 356-357.
assign_study_load(w, u, s, doctor_id) ==
  /\ sessions[w] = Idle
  /\ IF s \notin DOMAIN studies
     THEN /\ Respond("assign_study", 404, {})
          /\ UNCHANGED sessions
     ELSE IF User[u].role \notin {DIAGNOSTIC_CENTER_ADMIN, DOCTOR}
     THEN /\ Respond("assign_study", 403, {})
          /\ UNCHANGED sessions
     ELSE IF studies[s].diagnostic_center_id # User[u].diagnostic_center_id
     THEN /\ Respond("assign_study", 403, {})
          /\ UNCHANGED sessions
     ELSE /\ Serving(w, "assign_study", u, s,
                     [assigned_doctor_id |-> doctor_id, status |-> ASSIGNED])
          /\ UNCHANGED response
  /\ UNCHANGED <<db, call, auth>>

\* update_report up to the assignments of lines 373-379.
update_report_load(w, u, s, report_data) ==
  /\ sessions[w] = Idle
  /\ IF s \notin DOMAIN studies
     THEN /\ Respond("update_report", 404, {})
          /\ UNCHANGED sessions
     ELSE /\ Serving(w, "update_report", u, s,
                     IF User[u].role = DOCTOR
                     THEN [doctor_report |-> report_data.report,
                           status |-> COMPLETED]
                     ELSE IF User[u].role = RADIOLOGIST
                     THEN [radiologist_report |-> report_data.report,
                           final_report |-> report_data.final_report,
                           status |-> REVIEWED]
                     ELSE [c \in {} |-> NoText])
          /\ UNCHANGED response
  /\ UNCHANGED <<db, call, auth>>

\* assign_study_to_self up to the assignments of lines 581-582.
assign_study_to_self_load(w, u, s) ==
  /\ sessions[w] = Idle
  /\ IF User[u].role # RADIOLOGIST
     THEN /\ Respond("assign_study_to_self", 403, {})
          /\ UNCHANGED sessions
     ELSE IF s \notin DOMAIN studies
     THEN /\ Respond("assign_study_to_self", 404, {})
          /\ UNCHANGED sessions
     ELSE IF studies[s].radiologist_id # NULL
     THEN /\ Respond("assign_study_to_self", 400, {})
          /\ UNCHANGED sessions
     ELSE /\ Serving(w, "assign_study_to_self", u, s,
                     [radiologist_id |-> u, status |-> ASSIGNED])
          /\ UNCHANGED response
  /\ UNCHANGED <<db, call, auth>>

\* upload_study through the commit and refresh of lines 147-149: the row
\* is in the table as QUEUED while the request goes on.
upload_study_create(w, u, too_large) ==
  /\ sessions[w] = Idle
  /\ IF User[u].role \notin {TECHNICIAN, DOCTOR}
     THEN /\ Respond("upload_study", 403, {})
          /\ UNCHANGED <<db, sessions>>
     ELSE IF too_large
     THEN /\ Respond("upload_study", 413, {})
          /\ UNCHANGED <<db, sessions>>
     ELSE
       LET id == next_study_id
           row == [diagnostic_center_id |-> User[u].diagnostic_center_id,
                   patient_id |-> "PAT1",
                   uploaded_by_id |-> u,
                   assigned_doctor_id |-> NULL,
                   radiologist_id |-> NULL,
                   status |-> QUEUED,
                   ai_report |-> NoText,
                   doctor_report |-> NoText,
                   radiologist_report |-> NoText,
                   final_report |-> NoText]
       IN /\ next_study_id <= MaxStudies
          /\ studies' = (id :> row) @@ studies
          /\ next_study_id' = id + 1
          /\ sessions' = [sessions EXCEPT ![w] =
                            [op |-> "upload_study", user |-> u, study_id |-> id,
                             loaded |-> row, assigned |-> [c \in {} |-> NoText]]]
          /\ UNCHANGED <<dicom_files, storage, deletion_requests, audit_logs,
                         response>>
  /\ UNCHANGED <<call, auth>>

\* The rest of upload_study, lines 151-228: the files are stored, the file
\* rows committed and the row refreshed (204-205), and when the AI report
\* came back ai_report and status are assigned and committed (215-217).
\* PROCESSING differs from every status the refresh can have loaded, so the
\* result is the same wherever between 205 and 217 another commit falls.
upload_study_finish(w, n, parsed, ai_ok) ==
  /\ sessions[w] # Idle
  /\ sessions[w].op = "upload_study"
  /\ LET id == sessions[w].study_id
         refreshed == [sessions[w] EXCEPT
                         !.loaded = studies[id],
                         !.assigned = [ai_report |-> "AI", status |-> PROCESSING]]
     IN /\ storage' = storage \cup {<<id, k>> : k \in 1..n}
        /\ dicom_files' = dicom_files \cup
                            {[study_id |-> id, file_path |-> <<id, k>>] : k \in parsed}
        /\ studies' = IF ai_ok
                      THEN [studies EXCEPT ![id] = Flush(refreshed)]
                      ELSE studies
        /\ Respond("upload_study", 200, {id})
  /\ sessions' = [sessions EXCEPT ![w] = Idle]
  /\ UNCHANGED <<next_study_id, deletion_requests, audit_logs, call, auth>>

\* db.commit() and the return of the three handlers above.
commit(w) ==
  /\ sessions[w] # Idle
  /\ sessions[w].op \in {"assign_study", "update_report", "assign_study_to_self"}
  /\ studies' = [studies EXCEPT ![sessions[w].study_id] = Flush(sessions[w])]
  /\ Respond(sessions[w].op, 200, {})
  /\ sessions' = [sessions EXCEPT ![w] = Idle]
  /\ UNCHANGED <<next_study_id, dicom_files, storage, deletion_requests,
                 audit_logs, call, auth>>

AssignStudyLoad(Actors, DoctorIds) ==
  \E w \in Workers, u \in Actors, s \in StudyIds, d \in DoctorIds :
    assign_study_load(w, u, s, d)

UpdateReportLoad(Actors, Bodies) ==
  \E w \in Workers, u \in Actors, s \in StudyIds, rd \in Bodies :
    update_report_load(w, u, s, rd)

AssignStudyToSelfLoad(Actors) ==
  \E w \in Workers, u \in Actors, s \in StudyIds : assign_study_to_self_load(w, u, s)

Commit == \E w \in Workers : commit(w)

\* Assignments by the admin of center 1 and reports by its doctor, on
\* studies the technician uploaded.
NextRace ==
  \/ UploadStudy({5}, {0}, {TRUE})
  \/ AssignStudyLoad({2}, {3, 4})
  \/ UpdateReportLoad({3}, ReportData)
  \/ Commit

SpecRace == Init /\ [][NextRace]_vars

UploadStudyCreate(Uploaders) ==
  \E w \in Workers, u \in Uploaders, too_large \in BOOLEAN :
    upload_study_create(w, u, too_large)

UploadStudyFinish(FileCounts, AiOutcomes) ==
  \E w \in Workers, n \in FileCounts, ai_ok \in AiOutcomes :
    \E parsed \in SUBSET (1..n) : upload_study_finish(w, n, parsed, ai_ok)

\* An upload by the technician of center 1 while the admin of that center
\* assigns the new study, its doctor reports on it and the radiologists of
\* both centers assign it to themselves.
NextInterleaving ==
  \/ UploadStudyCreate({5})
  \/ UploadStudyFinish({0}, BOOLEAN)
  \/ AssignStudyLoad({2}, {3})
  \/ UpdateReportLoad({3}, ReportData)
  \/ AssignStudyToSelfLoad({6, 7})
  \/ Commit

SpecInterleaving == Init /\ [][NextInterleaving]_vars

\* ------------------------------------------------------- main.py: login
MaxClock == 2

MAX_LOGIN_ATTEMPTS == 10

LOCKOUT_DURATION == 60

ACCESS_TOKEN_EXPIRE_MINUTES == 30

ClientIps == {"ip1", "ip2"}

\* login_attempts[ip_address] after the `not in` test of line 67 or 79.
attempts(ip_address) ==
  IF ip_address \in DOMAIN login_attempts THEN login_attempts[ip_address] ELSE <<>>

\* The list line 71 stores: the attempts younger than the lockout duration.
recent_attempts(ip_address) ==
  SelectSeq(attempts(ip_address), LAMBDA attempt_time :
                                    current_time - attempt_time < LOCKOUT_DURATION)

\* A limiter that lets the attempt after the tenth failure through.
is_rate_limited_above(ip_address) ==
  Len(recent_attempts(ip_address)) > MAX_LOGIN_ATTEMPTS

is_rate_limited(ip_address) ==
  Len(recent_attempts(ip_address)) >= MAX_LOGIN_ATTEMPTS

\* A login that records the attempts it rejects as rate-limited as well.
login_recording_rejections(client_ip, u, password_ok) ==
  /\ call' = [fn |-> "login", client_ip |-> client_ip, username |-> u,
              password_ok |-> password_ok]
  /\ IF is_rate_limited(client_ip)
     THEN /\ login_attempts' =
               (client_ip :> Append(recent_attempts(client_ip), current_time))
                 @@ login_attempts
          /\ Respond("login", 429, {})
          /\ UNCHANGED tokens
     ELSE IF u = NULL \/ ~password_ok
     THEN /\ login_attempts' =
               (client_ip :> Append(recent_attempts(client_ip), current_time))
                 @@ login_attempts
          /\ Respond("login", 401, {})
          /\ UNCHANGED tokens
     ELSE IF ~is_active[u]
     THEN /\ login_attempts' =
               (client_ip :> recent_attempts(client_ip)) @@ login_attempts
          /\ Respond("login", 401, {})
          /\ UNCHANGED tokens
     ELSE /\ login_attempts' = (client_ip :> <<>>) @@ login_attempts
          /\ tokens' = (u :> current_time + ACCESS_TOKEN_EXPIRE_MINUTES * 60)
                         @@ tokens
          /\ Respond("login", 200, {u})
  /\ UNCHANGED <<db, is_active, current_time, sessions>>

\* POST /auth/login from client_ip.  u is the user row the username finds
\* (NULL when there is none), password_ok what verify_password says.  The
\* token is kept by the client: tokens holds, per subject, the expiry of the
\* latest one issued.
login(client_ip, u, password_ok) ==
  /\ call' = [fn |-> "login", client_ip |-> client_ip, username |-> u,
              password_ok |-> password_ok]
  /\ IF is_rate_limited(client_ip)
     THEN /\ login_attempts' =
               (client_ip :> recent_attempts(client_ip)) @@ login_attempts
          /\ Respond("login", 429, {})
          /\ UNCHANGED tokens
     ELSE IF u = NULL \/ ~password_ok
     THEN /\ login_attempts' =
               (client_ip :> Append(recent_attempts(client_ip), current_time))
                 @@ login_attempts
          /\ Respond("login", 401, {})
          /\ UNCHANGED tokens
     ELSE IF ~is_active[u]
     THEN /\ login_attempts' =
               (client_ip :> recent_attempts(client_ip)) @@ login_attempts
          /\ Respond("login", 401, {})
          /\ UNCHANGED tokens
     ELSE /\ login_attempts' = (client_ip :> <<>>) @@ login_attempts
          /\ tokens' = (u :> current_time + ACCESS_TOKEN_EXPIRE_MINUTES * 60)
                         @@ tokens
          /\ Respond("login", 200, {u})
  /\ UNCHANGED <<db, is_active, current_time, sessions>>

Login(Ips, Usernames, Passwords) ==
  \E client_ip \in Ips, u \in Usernames, password_ok \in Passwords :
    login(client_ip, u, password_ok)

\* time.time() moves on by half a lockout duration.
Tick ==
  /\ current_time < MaxClock * (LOCKOUT_DURATION \div 2)
  /\ current_time' = current_time + LOCKOUT_DURATION \div 2
  /\ UNCHANGED <<db, response, call, is_active, tokens, login_attempts, sessions>>

\* One client sends every kind of credentials for doctor 3 and for an unknown
\* username; a second client sends right and wrong passwords for doctor 3.
NextLogin ==
  \/ Login({"ip1"}, {3, NULL}, BOOLEAN)
  \/ Login({"ip2"}, {3}, BOOLEAN)
  \/ Tick

SpecLogin == Init /\ [][NextLogin]_vars

\* ------------------------------------------------------------ utils.py
max_attempts == 100
study_id_length == 8

\* string.ascii_uppercase + string.digits, cut down to two letters and three
\* digits.
characters == {"A", "Z", "0", "1", "2"}

Digit == [c \in {"0", "1", "2"} |-> CASE c = "0" -> 0 [] c = "1" -> 1 [] c = "2" -> 2]

\* The strings secrets.choice puts together: seven equal characters and a
\* last one, so that some read as the number 1 or 2 and the others as no
\* number.
StudyIdCandidates ==
  {[i \in 1..study_id_length |-> IF i < study_id_length THEN c ELSE d] :
     c \in {"0", "A"}, d \in {"1", "2", "Z"}}

\* Study.id is an INTEGER column and study_id is bound as text: SQLite
\* turns a text that reads as a number into that number before it compares,
\* and a text that does not is equal to no integer.
RECURSIVE IntegerValue(_)
IntegerValue(text) ==
  IF text = <<>> THEN 0
  ELSE 10 * IntegerValue(SubSeq(text, 1, Len(text) - 1)) + Digit[text[Len(text)]]

existing_study(study_id) ==
  {s \in DOMAIN studies :
     /\ \A i \in DOMAIN study_id : study_id[i] \in DOMAIN Digit
     /\ s = IntegerValue(study_id)}

\* A generator that returns its first candidate, as the code does when it
\* is given no session.
generate_study_id_unchecked ==
  /\ call.fn = "generate_study_id"
  /\ call.outcome = "running"
  /\ \E study_id \in StudyIdCandidates :
       call' = [call EXCEPT !.outcome = "returned", !.study_id = study_id]
  /\ UNCHANGED <<db, response, auth, sessions>>

\* A loop that goes round once more than max_attempts allows.
generate_study_id_loop_off_by_one ==
  call.attempts <= max_attempts

generate_study_id_loop ==
  call.attempts < max_attempts

\* One turn of the while loop of generate_study_id(db), or the raise after
\* it: `attempts` is the local counter, `checks` counts the queries sent.
generate_study_id ==
  /\ call.fn = "generate_study_id"
  /\ call.outcome = "running"
  /\ IF generate_study_id_loop
     THEN \E study_id \in StudyIdCandidates :
            IF existing_study(study_id) = {}
            THEN call' = [call EXCEPT !.outcome = "returned",
                                      !.study_id = study_id,
                                      !.checks = @ + 1]
            ELSE call' = [call EXCEPT !.attempts = @ + 1,
                                      !.checks = @ + 1]
     ELSE call' = [call EXCEPT !.outcome = "RuntimeError"]
  /\ UNCHANGED <<db, response, auth, sessions>>

\* generate_study_id is called with a store of any contents.
StudyRow ==
  [diagnostic_center_id |-> 1, patient_id |-> "PAT1", uploaded_by_id |-> 5,
   assigned_doctor_id |-> NULL, radiologist_id |-> NULL, status |-> QUEUED,
   ai_report |-> NoText, doctor_report |-> NoText,
   radiologist_report |-> NoText, final_report |-> NoText]

InitStudyId ==
  /\ \E ids \in SUBSET StudyIds : studies = [s \in ids |-> StudyRow]
  /\ next_study_id = MaxStudies + 1
  /\ dicom_files = {}
  /\ storage = {}
  /\ deletion_requests = <<>>
  /\ audit_logs = <<>>
  /\ response = [op |-> "none", status_code |-> 0, body |-> {}]
  /\ InitAuth
  /\ InitSessions
  /\ call = [fn |-> "generate_study_id", attempts |-> 0, checks |-> 0,
             outcome |-> "running", study_id |-> <<>>]

NextStudyId == generate_study_id

SpecStudyId == InitStudyId /\ [][NextStudyId]_vars /\ WF_vars(NextStudyId)

\* ------------------------------------------------- calls of anonymize_phi
\* What a call does to the dict it is handed and what it returns.  The
\* first is an anonymization that writes into the dict it was given.
anonymize_phi_in_place(data) ==
  [data |-> anonymize_phi(data), anonymized |-> anonymize_phi(data)]

\* data.copy() is written to and returned; `data` is left alone.
anonymize_phi_call(data) ==
  [data |-> data, anonymized |-> anonymize_phi(data)]

\* Records with any of two PHI keys and two other keys, holding a value or
\* the token already.
RecordKeys == {"patient_id", "email", "study_id", "modality"}

Records == UNION {[keys -> {"v", REDACTED}] : keys \in SUBSET RecordKeys}

\* anonymize_phi(d), then anonymize_phi of what it returned.  `given` keeps
\* the contents d had when it was passed, `data` is d itself.
AnonymizePhi ==
  /\ call.fn = "anonymize_phi"
  /\ \/ /\ call.applied = 0
        /\ LET r == anonymize_phi_call(call.data)
           IN call' = [call EXCEPT !.applied = 1, !.data = r.data,
                                   !.once = r.anonymized]
     \/ /\ call.applied = 1
        /\ LET r == anonymize_phi_call(call.once)
           IN call' = [call EXCEPT !.applied = 2, !.once = r.data,
                                   !.twice = r.anonymized]
  /\ UNCHANGED <<db, response, auth, sessions>>

InitAnonymize ==
  /\ studies = <<>>
  /\ next_study_id = 1
  /\ dicom_files = {}
  /\ storage = {}
  /\ deletion_requests = <<>>
  /\ audit_logs = <<>>
  /\ response = [op |-> "none", status_code |-> 0, body |-> {}]
  /\ InitAuth
  /\ InitSessions
  /\ \E d \in Records :
       call = [fn |-> "anonymize_phi", applied |-> 0, given |-> d, data |-> d,
               once |-> <<>>, twice |-> <<>>]

NextAnonymize == AnonymizePhi

SpecAnonymize == InitAnonymize /\ [][NextAnonymize]_vars

\* ------------------------------------------------------------- auth.py
ADMINISTRATIVE_ROLES == {ADMIN, DIAGNOSTIC_CENTER_ADMIN, DOCTOR}

has_administrative_access(user, target_center_id) ==
  IF ~user.is_active THEN FALSE
  ELSE IF user.role = ADMIN THEN TRUE
  ELSE IF user.role \in ADMINISTRATIVE_ROLES
  THEN IF target_center_id = NULL THEN TRUE
       ELSE user.diagnostic_center_id = target_center_id
  ELSE FALSE

\* The rows of the users table has_administrative_access may be handed,
\* and the centers it may be asked about.
Centers == {NULL, 1, 2}

Users == [role : UserRole, is_active : BOOLEAN, diagnostic_center_id : Centers]

HasAdministrativeAccess ==
  /\ call.fn = "has_administrative_access"
  /\ call.outcome = "running"
  /\ call' = [call EXCEPT
               !.outcome = "returned",
               !.result = has_administrative_access(call.user, call.target_center_id)]
  /\ UNCHANGED <<db, response, auth, sessions>>

InitAdministrativeAccess ==
  /\ studies = <<>>
  /\ next_study_id = 1
  /\ dicom_files = {}
  /\ storage = {}
  /\ deletion_requests = <<>>
  /\ audit_logs = <<>>
  /\ response = [op |-> "none", status_code |-> 0, body |-> {}]
  /\ InitAuth
  /\ InitSessions
  /\ \E user \in Users, target_center_id \in Centers :
       call = [fn |-> "has_administrative_access", user |-> user,
               target_center_id |-> target_center_id,
               outcome |-> "running", result |-> FALSE]

NextAdministrativeAccess == HasAdministrativeAccess

SpecAdministrativeAccess ==
  InitAdministrativeAccess /\ [][NextAdministrativeAccess]_vars

\* ------------------------------------- auth.py: who the bearer token names
\* verify_token and get_current_user: the token of u decodes while it has not
\* expired, and the users table has a row for its subject.  Nothing else of
\* the row is looked at.
get_current_user(u) ==
  /\ u \in DOMAIN tokens
  /\ current_time <= tokens[u]
  /\ u \in UserIds

\* A route that depends on get_current_user, called with the token of u;
\* `tables` is what the handler may write.
Authenticated(u, op, handler, tables) ==
  /\ call' = [fn |-> "get_current_user", username |-> u]
  /\ IF get_current_user(u)
     THEN handler
     ELSE /\ Respond(op, 401, {})
          /\ UNCHANGED tables

\* PUT /users/{user_id}/status, once require_diagnostic_center_admin has
\* returned the caller u.
toggle_user_status(u, user_id, active) ==
  /\ IF User[u].role \notin {ADMIN, DIAGNOSTIC_CENTER_ADMIN}
     THEN /\ Respond("toggle_user_status", 403, {})
          /\ UNCHANGED is_active
     ELSE IF user_id \notin UserIds
     THEN /\ Respond("toggle_user_status", 404, {})
          /\ UNCHANGED is_active
     ELSE IF /\ User[u].role # ADMIN
             /\ User[user_id].diagnostic_center_id # User[u].diagnostic_center_id
     THEN /\ Respond("toggle_user_status", 403, {})
          /\ UNCHANGED is_active
     ELSE /\ is_active' = [is_active EXCEPT ![user_id] = active]
          /\ Respond("toggle_user_status", 200, {})
  /\ UNCHANGED db

ToggleUserStatus(Actors, Targets) ==
  /\ \E u \in Actors, user_id \in Targets, active \in BOOLEAN :
       Authenticated(u, "toggle_user_status",
                     toggle_user_status(u, user_id, active), <<db, is_active>>)
  /\ UNCHANGED <<tokens, login_attempts, current_time, sessions>>

\* The technician and the doctor of center 1 log in and work on studies
\* while the admin of that center switches their accounts off and on.
NextDeactivation ==
  \/ Login({"ip1"}, {2, 3, 5}, {TRUE})
  \/ ToggleUserStatus({2}, {3, 5})
  \/ /\ Authenticated(5, "upload_study", upload_study(5, FALSE, 0, {}, TRUE), db)
     /\ UNCHANGED <<auth, sessions>>
  \/ /\ \E s \in StudyIds :
          Authenticated(3, "assign_study", assign_study(3, s, 3), db)
     /\ UNCHANGED <<auth, sessions>>
  \/ /\ \E s \in StudyIds, rd \in ReportData :
          Authenticated(3, "update_report", update_report(3, s, rd), db)
     /\ UNCHANGED <<auth, sessions>>
  \/ /\ \E s \in StudyIds :
          Authenticated(5, "create_deletion_request",
                        create_deletion_request(5, s, "wrong patient"), db)
     /\ UNCHANGED <<auth, sessions>>

SpecDeactivation == Init /\ [][NextDeactivation]_vars

\* ------------------------------------------- auth.py and routers/ai.py
MEDICAL_ROLES == {ADMIN, RADIOLOGIST, DOCTOR, TECHNICIAN, DIAGNOSTIC_CENTER_ADMIN}

\* The users row of u as the dependencies hand it to a handler.
CurrentUser(u) ==
  [role |-> User[u].role, is_active |-> is_active[u],
   diagnostic_center_id |-> User[u].diagnostic_center_id]

has_medical_access(user) == user.role \in MEDICAL_ROLES /\ user.is_active

\* POST /ai/generate-report/{study_id} behind check_medical_access.  report is
\* the text ai_service.generate_report returned, ai_error whether it raised.
generate_ai_report(u, s, report, ai_error) ==
  IF ~has_medical_access(CurrentUser(u))
  THEN /\ Respond("generate_ai_report", 403, {})
       /\ UNCHANGED db
  ELSE IF s \notin DOMAIN studies
  THEN /\ Respond("generate_ai_report", 404, {})
       /\ UNCHANGED db
  ELSE IF ai_error
  THEN /\ Respond("generate_ai_report", 500, {})
       /\ UNCHANGED db
  ELSE /\ studies' = [studies EXCEPT ![s].ai_report = report]
       /\ Respond("generate_ai_report", 200, {s})
       /\ UNCHANGED <<next_study_id, dicom_files, storage, deletion_requests,
                      audit_logs>>

AiReports == {"AI", "AI again"}

GenerateAiReport ==
  /\ \E u \in UserIds, s \in StudyIds, report \in AiReports, ai_error \in BOOLEAN :
       /\ call' = [fn |-> "check_medical_access", username |-> u]
       /\ generate_ai_report(u, s, report, ai_error)
  /\ UNCHANGED <<auth, sessions>>

\* Studies of both centers and the AI report route called by every user.
NextAiReport ==
  \/ UploadStudy({3, 4, 5}, {0}, BOOLEAN)
  \/ GenerateAiReport

SpecAiReport == Init /\ [][NextAiReport]_vars

\* ===================================================== access control
UsersWithRole(roles) == {u \in UserIds : User[u].role \in roles}

SameCenter(u, s) ==
  studies[s].diagnostic_center_id = User[u].diagnostic_center_id

\* The listing policy as the access-control table states it.
CanList(u, s) ==
  \/ User[u].role = TECHNICIAN /\ studies[s].uploaded_by_id = u
  \/ User[u].role = DOCTOR /\ (SameCenter(u, s) \/ studies[s].assigned_doctor_id = u)
  \/ User[u].role = RADIOLOGIST /\ SameCenter(u, s)
  \/ User[u].role = DIAGNOSTIC_CENTER_ADMIN /\ SameCenter(u, s)
  \/ User[u].role = ADMIN

\* C1: get_studies without a status filter returns a study if and only if
\* the caller is a technician who uploaded it, a doctor of its center or
\* assigned to it, a radiologist or center admin of its center, or an admin.
C1_ListScoping ==
  [][response'.op = "get_studies" =>
       \A u \in UserIds :
         get_studies(u, NoFilter) =>
           response'.body = {s \in DOMAIN studies : CanList(u, s)}]_vars

\* A listing was answered that contains a study of center 1, uploaded by
\* the doctor of center 1 and assigned to the doctor of center 2.
C1_Witness ==
  /\ response.op = "get_studies"
  /\ \E s \in response.body :
       /\ studies[s].diagnostic_center_id = 1
       /\ studies[s].assigned_doctor_id = 4
       /\ studies[s].uploaded_by_id = 3

\* C2: get_study by a doctor, technician or center admin is allowed exactly
\* when the study's center is the caller's center, whoever uploaded it and
\* whoever it is assigned to; a doctor assigned to a study of another center
\* gets it in the listing and is answered 403 on the detail.
C2_DetailTenantEquality ==
  [][response'.op \in {"get_study", "get_studies"} =>
       \A u \in UsersWithRole({DOCTOR, TECHNICIAN, DIAGNOSTIC_CENTER_ADMIN}) :
         \A s \in DOMAIN studies :
           /\ get_study(u, s) =>
                /\ SameCenter(u, s) => response'.status_code = 200
                /\ ~ SameCenter(u, s) => response'.status_code = 403
           /\ (User[u].role = DOCTOR /\ studies[s].assigned_doctor_id = u
                                     /\ ~ SameCenter(u, s)) =>
                (get_studies(u, NoFilter) => s \in response'.body)]_vars

\* The detail of a study of center 1 that is assigned to the doctor of
\* center 2 was refused.
C2_Witness ==
  /\ response.op = "get_study"
  /\ response.status_code = 403
  /\ \E s \in DOMAIN studies :
       /\ studies[s].assigned_doctor_id = 4
       /\ studies[s].diagnostic_center_id = 1

\* C3: get_study by an admin or by a radiologist is allowed for every
\* existing study, whatever the two centers are.
C3_AdminRadiologistUnconditional ==
  [][\A u \in UsersWithRole({ADMIN, RADIOLOGIST}) :
       \A s \in DOMAIN studies :
         get_study(u, s) => response'.status_code = 200]_vars

\* ========================================================== lifecycle
PreAssignment == {QUEUED, PROCESSING, UPLOADED}

\* C4: every change of a study's status follows an edge of the transition
\* table; assign_study moves a study to ASSIGNED only from a pre-assignment
\* status and never moves a COMPLETED or REVIEWED study back to ASSIGNED.
C4_LegalTransitions ==
  [][/\ \A s \in DOMAIN studies' \ DOMAIN studies :
          studies'[s].status \in {QUEUED, PROCESSING}
     /\ \A s \in DOMAIN studies \cap DOMAIN studies' :
          studies'[s].status # studies[s].status =>
            \/ studies[s].status = QUEUED /\ studies'[s].status = PROCESSING
            \/ /\ studies'[s].status = ASSIGNED
               /\ response'.op = "assign_study"
               /\ studies[s].status \in PreAssignment
            \/ /\ studies'[s].status = ASSIGNED
               /\ response'.op = "assign_study_to_self"
            \/ /\ studies'[s].status \in {COMPLETED, REVIEWED}
               /\ response'.op = "update_report"]_vars

\* C5: once a study is REVIEWED no operation changes its status again.
C5_ReviewedIsTerminal ==
  [][\A s \in DOMAIN studies \cap DOMAIN studies' :
       studies[s].status = REVIEWED => studies'[s].status = REVIEWED]_vars

\* C6: assign_study_to_self by a radiologist on an existing study succeeds
\* exactly when radiologist_id is unset, and then sets radiologist_id to the
\* caller and status to ASSIGNED; otherwise it is answered as a conflict and
\* the study is left as it was.
C6_SelfAssign ==
  [][response'.op = "assign_study_to_self" =>
       \A u \in UsersWithRole({RADIOLOGIST}) : \A s \in DOMAIN studies :
         assign_study_to_self(u, s) =>
           IF studies[s].radiologist_id = NULL
           THEN /\ response'.status_code = 200
                /\ studies'[s].radiologist_id = u
                /\ studies'[s].status = ASSIGNED
           ELSE /\ response'.status_code = 400
                /\ studies' = studies]_vars

\* A self-assignment was refused on a study another radiologist had taken
\* and that has been reviewed since.
C6_Witness ==
  /\ response.op = "assign_study_to_self"
  /\ response.status_code = 400
  /\ \E s \in DOMAIN studies :
       studies[s].radiologist_id = 6 /\ studies[s].status = REVIEWED

\* C7: update_report by a doctor writes doctor_report and sets COMPLETED
\* only for a study of the doctor's own center; a doctor of another center
\* is answered 403 and the study is left unchanged.
C7_DoctorReportOwnCenter ==
  [][\A u \in UsersWithRole({DOCTOR}) : \A s \in DOMAIN studies :
       \A rd \in ReportData :
         update_report(u, s, rd) =>
           IF SameCenter(u, s)
           THEN /\ response'.status_code = 200
                /\ studies'[s].doctor_report = rd.report
                /\ studies'[s].status = COMPLETED
           ELSE /\ response'.status_code = 403
                /\ studies' = studies]_vars

\* C8: update_report by a radiologist or an admin sets the status of any
\* existing study to REVIEWED, whatever its status was.
C8_ReviewerReportSetsReviewed ==
  [][\A u \in UsersWithRole({RADIOLOGIST, ADMIN}) : \A s \in DOMAIN studies :
       \A rd \in ReportData :
         update_report(u, s, rd) => studies'[s].status = REVIEWED]_vars

\* C9: update_report by a technician or a center admin is answered 403,
\* never with a success.
C9_ReportForbiddenForOtherRoles ==
  [][\A u \in UsersWithRole({TECHNICIAN, DIAGNOSTIC_CENTER_ADMIN}) :
       \A s \in DOMAIN studies : \A rd \in ReportData :
         update_report(u, s, rd) => response'.status_code = 403]_vars

\* =================================================== deletion requests
\* C10: a DeletionRequest is created only by a technician or doctor and only
\* for a study that exists at that moment, pending and without approver; a
\* request changes afterwards only through approve_deletion_request or
\* reject_deletion_request called by an admin, which set the status, that
\* admin as approver and the resolution time, and which succeed even when
\* the study the request names is gone.
C10_DeletionRequestWorkflow ==
  [][/\ \A r \in DOMAIN deletion_requests' \ DOMAIN deletion_requests :
          /\ User[deletion_requests'[r].requested_by_id].role \in {TECHNICIAN, DOCTOR}
          /\ deletion_requests'[r].study_id \in DOMAIN studies
          /\ deletion_requests'[r].status = "pending"
          /\ deletion_requests'[r].approved_by_id = NULL
          /\ deletion_requests'[r].approved_at = NULL
     /\ \A r \in DOMAIN deletion_requests :
          /\ r \in DOMAIN deletion_requests'
          /\ deletion_requests'[r] # deletion_requests[r] =>
               /\ response'.op \in {"approve_deletion_request",
                                    "reject_deletion_request"}
               /\ response'.status_code = 200
               /\ deletion_requests'[r].status =
                    IF response'.op = "approve_deletion_request"
                    THEN "approved" ELSE "rejected"
               /\ deletion_requests'[r].approved_by_id \in UsersWithRole({ADMIN})
               /\ deletion_requests'[r].approved_at \in Times
               /\ deletion_requests'[r].study_id = deletion_requests[r].study_id
               /\ deletion_requests'[r].requested_by_id =
                    deletion_requests[r].requested_by_id
               /\ deletion_requests'[r].reason = deletion_requests[r].reason
     /\ response'.op = "approve_deletion_request" =>
          \A u \in UserIds : \A r \in DOMAIN deletion_requests : \A now \in Times :
            approve_deletion_request(u, r, now) =>
              IF User[u].role = ADMIN
              THEN /\ response'.status_code = 200
                   /\ deletion_requests'[r].status = "approved"
                   /\ deletion_requests'[r].approved_by_id = u
                   /\ deletion_requests'[r].approved_at = now
              ELSE /\ response'.status_code = 403
                   /\ deletion_requests' = deletion_requests
     /\ response'.op = "reject_deletion_request" =>
          \A u \in UserIds : \A r \in DOMAIN deletion_requests : \A now \in Times :
            reject_deletion_request(u, r, now) =>
              IF User[u].role = ADMIN
              THEN /\ response'.status_code = 200
                   /\ deletion_requests'[r].status = "rejected"
                   /\ deletion_requests'[r].approved_by_id = u
                   /\ deletion_requests'[r].approved_at = now
              ELSE /\ response'.status_code = 403
                   /\ deletion_requests' = deletion_requests]_vars

\* A request was approved after the study it names had been deleted.
C10_Witness ==
  /\ response.op = "approve_deletion_request"
  /\ response.status_code = 200
  /\ \E r \in DOMAIN deletion_requests :
       /\ deletion_requests[r].status = "approved"
       /\ deletion_requests[r].approved_by_id = 1
       /\ deletion_requests[r].study_id \notin DOMAIN studies

\* C11: a DeletionRequest whose status is approved or rejected keeps its
\* status, its approver and its resolution time in every later step.
C11_ResolvedIsTerminal ==
  [][\A r \in DOMAIN deletion_requests :
       deletion_requests[r].status \in {"approved", "rejected"} =>
         /\ r \in DOMAIN deletion_requests'
         /\ deletion_requests'[r].status = deletion_requests[r].status
         /\ deletion_requests'[r].approved_by_id = deletion_requests[r].approved_by_id
         /\ deletion_requests'[r].approved_at = deletion_requests[r].approved_at]_vars

OneAuditEntryAdded ==
  /\ Len(audit_logs') = Len(audit_logs) + 1
  /\ SubSeq(audit_logs', 1, Len(audit_logs)) = audit_logs

\* C13: when delete_study answers 200, the study it was called for and every
\* DicomFile row of that study are gone, and audit_logs has exactly one new
\* row: action STUDY_DELETED, written by an admin for that study, whose
\* details carry patient_id and have every PHI field replaced by the
\* redaction token.
C13_DeleteRemovesAndAudits ==
  [][(response'.op = "delete_study" /\ response'.status_code = 200) =>
       \E s \in DOMAIN studies :
         /\ s \notin DOMAIN studies'
         /\ DOMAIN studies' = DOMAIN studies \ {s}
         /\ \A f \in dicom_files' : f.study_id # s
         /\ OneAuditEntryAdded
         /\ LET entry == audit_logs'[Len(audit_logs')]
            IN /\ entry.action = "STUDY_DELETED"
               /\ entry.resource_type = "study"
               /\ entry.resource_id = ToString(s)
               /\ User[entry.user_id].role = ADMIN
               /\ entry.details.study_id = s
               /\ "patient_id" \in DOMAIN entry.details
               /\ \A f \in DOMAIN entry.details \cap phi_fields :
                    entry.details[f] = REDACTED]_vars

\* A study with a file row was deleted and its audit row shows the token in
\* place of the patient id.
C13_Witness ==
  /\ response.op = "delete_study"
  /\ response.status_code = 200
  /\ studies = <<>>
  /\ dicom_files = {}
  /\ \E i \in DOMAIN audit_logs :
       /\ audit_logs[i].details.files_count = MaxFiles
       /\ audit_logs[i].details.patient_id = REDACTED

\* C14: a delete_study call by an admin on an existing study whose commit
\* goes through removes the Study row and its DicomFile rows and writes the
\* audit row, whether the stored files were there, were missing, or could
\* not be removed.
C14_IoErrorDoesNotAbort ==
  [][response'.op = "delete_study" =>
       \A u \in UsersWithRole({ADMIN}), s \in DOMAIN studies :
         \A o \in DeleteOutcomes(u, s) :
           (~o.commit_error /\ delete_study(u, s, o.removed, o.io_error, FALSE)) =>
             /\ s \notin DOMAIN studies'
             /\ StudyFiles(s) \cap dicom_files' = {}
             /\ OneAuditEntryAdded]_vars

\* C15: in every step a Study row disappears exactly when one STUDY_DELETED
\* audit row for it is appended, audit_logs changes in no other way, and a
\* delete_study call whose audit commit fails answers 500 and leaves the
\* tables as they were.
C15_DeleteAndAuditAtomic ==
  [][/\ \A s \in StudyIds :
          (s \in DOMAIN studies /\ s \notin DOMAIN studies') <=>
            /\ OneAuditEntryAdded
            /\ audit_logs'[Len(audit_logs')].action = "STUDY_DELETED"
            /\ audit_logs'[Len(audit_logs')].resource_id = ToString(s)
     /\ audit_logs' # audit_logs => OneAuditEntryAdded
     /\ response'.op = "delete_study" =>
          \A u \in UsersWithRole({ADMIN}), s \in DOMAIN studies :
            delete_study(u, s, StoredFiles(s), FALSE, TRUE) =>
              /\ response'.status_code = 500
              /\ UNCHANGED <<studies, next_study_id, dicom_files,
                             deletion_requests, audit_logs>>]_vars

\* A delete_study call got through the file loop and failed at the commit:
\* the stored file is gone, its row and the study are still there, and no
\* audit row exists.
C15_Witness ==
  /\ response.op = "delete_study"
  /\ response.status_code = 500
  /\ audit_logs = <<>>
  /\ \E s \in DOMAIN studies : StudyFiles(s) # {} /\ StoredFiles(s) = {}

\* ===================================================== generate_study_id
\* C16: the identifier generate_study_id returns is one for which the
\* lookup Study.id == study_id finds no row of the store.
C16_ReturnedIdIsFresh ==
  (call.fn = "generate_study_id" /\ call.outcome = "returned") =>
    existing_study(call.study_id) = {}

\* The store holds a study, a candidate collided with it, and a later
\* candidate that reads as a number was returned.
C16_Witness ==
  /\ call.fn = "generate_study_id"
  /\ call.outcome = "returned"
  /\ call.attempts > 0
  /\ \A i \in DOMAIN call.study_id : call.study_id[i] \in DOMAIN Digit

\* C17: generate_study_id sends at most max_attempts lookups and then
\* stops; every lookup either collides and is counted, or ends the call
\* with the candidate, a string of study_id_length characters of
\* `characters`; RuntimeError is raised exactly when max_attempts lookups
\* collided one after the other.
C17_BoundedRetries ==
  /\ [](call.fn = "generate_study_id" =>
          /\ call.checks <= max_attempts
          /\ call.outcome = "running" => call.checks = call.attempts
          /\ call.outcome = "returned" =>
               /\ call.checks = call.attempts + 1
               /\ Len(call.study_id) = study_id_length
               /\ \A i \in DOMAIN call.study_id : call.study_id[i] \in characters
          /\ call.outcome = "RuntimeError" =>
               /\ call.attempts = max_attempts
               /\ call.checks = max_attempts)
  /\ [][call.fn = "generate_study_id" =>
          /\ call.outcome = "running"
          /\ IF call.attempts = max_attempts
             THEN call'.outcome = "RuntimeError"
             ELSE \/ /\ call'.outcome = "returned"
                     /\ call'.attempts = call.attempts
                     /\ existing_study(call'.study_id) = {}
                  \/ /\ call'.outcome = "running"
                     /\ call'.attempts = call.attempts + 1]_vars
  /\ <>(call.fn = "generate_study_id" => call.outcome # "running")

\* Every one of max_attempts candidates collided and the call raised.
C17_Witness ==
  /\ call.fn = "generate_study_id"
  /\ call.outcome = "RuntimeError"
  /\ call.checks = max_attempts
  /\ DOMAIN studies # {}

\* ============================================== has_administrative_access
\* C18: has_administrative_access returns true for an admin, for a
\* diagnostic-center admin or doctor exactly when the target center is set
\* and is the actor's own, and false in every other case.
C18_AdministrativeAccessPolicy ==
  (call.fn = "has_administrative_access" /\ call.outcome = "returned") =>
    call.result =
      \/ call.user.role = ADMIN
      \/ /\ call.user.role \in {DIAGNOSTIC_CENTER_ADMIN, DOCTOR}
         /\ call.target_center_id # NULL
         /\ call.user.diagnostic_center_id = call.target_center_id

\* ========================================================== anonymize_phi
\* C19: after anonymize_phi(d) the dict d holds what it held before, and
\* anonymize_phi of the returned record returns that same record.
C19_AnonymizeIdempotent ==
  call.fn = "anonymize_phi" =>
    /\ call.applied >= 1 => call.data = call.given
    /\ call.applied = 2 =>
         /\ call.twice = call.once
         /\ call.twice = anonymize_phi(call.given)

\* A record with a patient id in the clear went through both calls.
C19_Witness ==
  /\ call.fn = "anonymize_phi"
  /\ call.applied = 2
  /\ "patient_id" \in DOMAIN call.given
  /\ call.given["patient_id"] = "v"
  /\ call.twice["patient_id"] = REDACTED
  /\ call.twice # call.given

\* ============================================================ audit trail
\* C20: every call of upload_study, assign_study, assign_study_to_self,
\* update_report, create_deletion_request, approve_deletion_request,
\* reject_deletion_request or delete_study that answers 200 and changes a
\* table appends one row to audit_logs.
C20_EveryChangeAudited ==
  [][(/\ response'.op \in {"upload_study", "assign_study", "assign_study_to_self",
                            "update_report", "create_deletion_request",
                            "approve_deletion_request", "reject_deletion_request",
                            "delete_study"}
      /\ response'.status_code = 200
      /\ <<studies, dicom_files, deletion_requests>>' #
           <<studies, dicom_files, deletion_requests>>) =>
       OneAuditEntryAdded]_vars

\* The worker w answers the request it was serving.
Commits(w) == sessions[w] # Idle /\ sessions'[w] = Idle

\* The row worker w loaded has been changed by a commit of the other worker.
Overtaken(w) ==
  /\ sessions[w] # Idle
  /\ sessions[w].loaded # studies[sessions[w].study_id]

\* C21 as stated: when a request commits after another request changed the
\* study it had loaded, it is answered 200 and the study's status becomes the
\* status this last request assigned.
C21_LastCommitWinsStatus ==
  [][\A w \in Workers :
       (Commits(w) /\ Overtaken(w)) =>
         /\ response'.status_code = 200
         /\ studies'[sessions[w].study_id].status = sessions[w].assigned.status]_vars

\* C21, amended: a request that commits after another request changed the
\* study it had loaded is answered 200; the study's status becomes the status
\* it assigned when that differs from the status it loaded, and otherwise
\* stays the status the other request committed.
C21_LastStatusUpdateWins ==
  [][\A w \in Workers :
       (Commits(w) /\ Overtaken(w)) =>
         /\ response'.status_code = 200
         /\ studies'[sessions[w].study_id].status =
              IF sessions[w].assigned.status # sessions[w].loaded.status
              THEN sessions[w].assigned.status
              ELSE studies[sessions[w].study_id].status]_vars

\* One request has committed a status while the other worker still holds the
\* row it loaded before, with a status it is about to assign again.
C21_Witness ==
  \E w \in Workers :
    /\ Overtaken(w)
    /\ response.status_code = 200
    /\ response.op \in {"assign_study", "update_report"} \ {sessions[w].op}
    /\ sessions[w].assigned.status = sessions[w].loaded.status
    /\ studies[sessions[w].study_id].status # sessions[w].loaded.status

\* C22: under any interleaving of assign_study_to_self requests, a
\* radiologist_id that is set is never replaced by another radiologist: of
\* the requests on one study at most one is answered 200.
C22_RadiologistNeverOverwritten ==
  [][\A s \in DOMAIN studies :
       (s \in DOMAIN studies' /\ studies[s].radiologist_id # NULL) =>
         studies'[s].radiologist_id = studies[s].radiologist_id]_vars

\* C23: the enrichment step of upload_study moves a study to PROCESSING from
\* QUEUED only: no step turns ASSIGNED, COMPLETED or REVIEWED into PROCESSING.
C23_ProcessingOnlyFromQueued ==
  [][\A s \in DOMAIN studies :
       (s \in DOMAIN studies' /\ studies[s].status \in {ASSIGNED, COMPLETED, REVIEWED}) =>
         studies'[s].status # PROCESSING]_vars

\* C24: in every reachable state the assigned_doctor_id of a study, when
\* set, names an existing user whose role is doctor and whose center is the
\* study's center.
C24_AssignedDoctorOfSameTenant ==
  \A s \in DOMAIN studies :
    studies[s].assigned_doctor_id # NULL =>
      /\ studies[s].assigned_doctor_id \in UserIds
      /\ User[studies[s].assigned_doctor_id].role = DOCTOR
      /\ User[studies[s].assigned_doctor_id].diagnostic_center_id =
           studies[s].diagnostic_center_id

\* The recorded failures of an address that are younger than the lockout.
RecentFailures(ip) ==
  IF ip \in DOMAIN login_attempts
  THEN Cardinality({i \in 1..Len(login_attempts[ip]) :
                      current_time - login_attempts[ip][i] < LOCKOUT_DURATION})
  ELSE 0

\* The step is a login attempt from ip (the clock stands still during it).
LoginFrom(ip) ==
  /\ call'.fn = "login"
  /\ call'.client_ip = ip
  /\ response'.op = "login"
  /\ current_time' = current_time

RightCredentials == call'.username # NULL /\ call'.password_ok /\ is_active[call'.username]

C26_LockoutEnds ==
  [][\A ip \in ClientIps :
       LoginFrom(ip) =>
         /\ response'.status_code = 429 =>
              /\ Len(login_attempts'[ip]) = RecentFailures(ip)
              /\ \A i \in 1..Len(login_attempts'[ip]) :
                   \E j \in 1..Len(login_attempts[ip]) :
                     login_attempts'[ip][i] = login_attempts[ip][j]
         /\ (RightCredentials /\ RecentFailures(ip) = 0) =>
              response'.status_code = 200]_vars

\* An address was answered 429 later than its tenth recorded failure.
C26_Witness ==
  /\ call.fn = "login"
  /\ response.status_code = 429
  /\ Len(attempts(call.client_ip)) = MAX_LOGIN_ATTEMPTS
  /\ current_time > attempts(call.client_ip)[MAX_LOGIN_ATTEMPTS]

\* C27: a user whose is_active is false performs no study operation: no
\* upload, assignment, report or deletion request made with that user's
\* token is answered 200.
C27_DeactivatedUserLockedOut ==
  [][(/\ call'.fn = "get_current_user"
      /\ response'.op \in {"upload_study", "assign_study", "update_report",
                            "create_deletion_request", "delete_study"}
      /\ response'.status_code = 200) =>
       is_active[call'.username]]_vars

\* C30: the route behind check_medical_access changes no study to whose
\* center the caller has no administrative access.
C30_MedicalAccessReadOnly ==
  [][(/\ call'.fn = "check_medical_access"
      /\ response'.op = "generate_ai_report") =>
       \A s \in DOMAIN studies :
         ~has_administrative_access(CurrentUser(call'.username),
                                    studies[s].diagnostic_center_id) =>
           studies'[s] = studies[s]]_vars

\* C28: in every reachable state the study_id of every DeletionRequest,
\* pending or resolved, names a row of the studies table.
C28_RequestsReferToStudies ==
  \A r \in DOMAIN deletion_requests :
    deletion_requests[r].study_id \in DOMAIN studies

\* C29: in every reachable state the file of every DicomFile row is in the
\* storage: a delete_study that fails leaves the rows and their bytes.
C29_FailedDeleteChangesNothing ==
  \A f \in dicom_files : f.file_path \in storage

====
